---------------------------- MODULE Spec2Model ----------------------------
(***************************************************************************)
(* Product Service (week03/example-1/backend/product_service).             *)
(*                                                                         *)
(* The relational store is a function from product_id to row; every HTTP   *)
(* request is one action that runs validation, the handler, the unit of    *)
(* work (commit / rollback / refresh) and the response_model validation of *)
(* what the handler returned.                                              *)
(*                                                                         *)
(* Text is a sequence of one-character strings.  A float price is          *)
(* [units, mills] (units + mills/1000); a stored Numeric(10, 2) price is   *)
(* [units, cents].  An optional value is [isnull, v]; a payload field is   *)
(* [st, v] with st "absent" (not in the JSON body), "null" or "val".       *)
(*                                                                         *)
(* Store faults are injected only where a handler has a failure path (the  *)
(* try blocks around commit and refresh); the plain SELECTs are taken to   *)
(* answer.                                                                 *)
(***************************************************************************)
EXTENDS Integers, Sequences, FiniteSets, TLC

VARIABLES
    store,      \* product_id -> row of products_week03_example_01
    seq,        \* last value handed out by the product_id sequence
    clock,      \* the store's now(); advances with every unit of work that writes
    req,        \* the last request
    prev,       \* the store as it was when the last request arrived
    ret,        \* what the last handler returned (rows), <<>> when it raised
    resp,       \* the last HTTP response
    deleted,    \* ids whose delete_product answered 204
    boot,       \* startup_event: where it stands, its attempts, sleeps and exit status
    sessions,   \* every session SessionLocal() has made: its request, whether closed
    inflight    \* the requests being handled concurrently, each at its own step

vars == <<store, seq, clock, req, prev, ret, resp, deleted, boot, sessions, inflight>>

-----------------------------------------------------------------------------
(* Bounds of the model *)

\* units of work the lifecycle specification lets write
MaxClock == 3
\* units of work the validation specification lets write
MaxClockV == 2
\* rows the search specification inserts
MaxRowsL == 3

(* Program constants *)

NameMinLen == 1
NameMaxLen == 255
DescMaxLen == 2000
NumericPrecision == 10
NumericScale == 2
SkipMin == 0
LimitMin == 1
LimitMax == 100
SearchMaxLen == 255
DefaultSkip == 0
DefaultLimit == 100

-----------------------------------------------------------------------------
(* Values *)

Null(d) == [isnull |-> TRUE, v |-> d]
Some(x) == [isnull |-> FALSE, v |-> x]

Absent(d) == [st |-> "absent", v |-> d]
JsonNull(d) == [st |-> "null", v |-> d]
Val(x) == [st |-> "val", v |-> x]

Float(u, m) == [units |-> u, mills |-> m]
Decimal(u, c) == [units |-> u, cents |-> c]

Min(a, b) == IF a < b THEN a ELSE b
Max(a, b) == IF a > b THEN a ELSE b

Rep(c, n) == [i \in 1..n |-> c]

NoStr == <<>>
NoFloat == Float(0, 0)
NoInt == 0

Payload(n, d, p, s) == [name |-> n, description |-> d, price |-> p, stock_quantity |-> s]

Fields == {"name", "description", "price", "stock_quantity"}

-----------------------------------------------------------------------------
(* schemas.py *)

FloatGt0(p) == p.units > 0 \/ (p.units = 0 /\ p.mills > 0)

\* mutant: ge=0 where the schema says gt=0
PriceOk_Ge(p) == p.units >= 0 /\ p.mills >= 0

NameOk(s) == Len(s) >= NameMinLen /\ Len(s) <= NameMaxLen
DescOk(s) == Len(s) <= DescMaxLen
PriceOk(p) == FloatGt0(p)
StockOk(n) == n >= 0

\* ProductCreate: name, price and stock_quantity required (not None), description optional
ProductCreate(p) ==
    /\ p.name.st = "val" /\ NameOk(p.name.v)
    /\ p.description.st = "val" => DescOk(p.description.v)
    /\ p.price.st = "val" /\ PriceOk(p.price.v)
    /\ p.stock_quantity.st = "val" /\ StockOk(p.stock_quantity.v)

\* ProductUpdate: every field Optional with default None
ProductUpdate(u) ==
    /\ u.name.st = "val" => NameOk(u.name.v)
    /\ u.description.st = "val" => DescOk(u.description.v)
    /\ u.price.st = "val" => PriceOk(u.price.v)
    /\ u.stock_quantity.st = "val" => StockOk(u.stock_quantity.v)

\* Decimal -> float of the response model
ToFloat(d) == Float(d.units, d.cents * 10)

\* ProductResponse(ProductCreate), validated from the ORM row (from_attributes)
ProductResponse(row) ==
    /\ NameOk(row.name)
    /\ ~row.description.isnull => DescOk(row.description.v)
    /\ PriceOk(ToFloat(row.price))
    /\ StockOk(row.stock_quantity)

\* the serialised response body of one row
ResponseBody(row) ==
    [product_id |-> row.product_id, name |-> row.name, description |-> row.description,
     price |-> ToFloat(row.price), stock_quantity |-> row.stock_quantity,
     created_at |-> row.created_at, updated_at |-> row.updated_at]

-----------------------------------------------------------------------------
(* models.py: the columns of Product *)

\* mutant: the scale is cut, not rounded
RoundNumeric_Truncate(p) == Decimal(p.units, p.mills \div 10)

\* Numeric(10, 2): a float bind value is rounded to the scale, half away from zero
RoundNumeric(p) ==
    LET c == (p.mills + 5) \div 10
    IN  IF c = 100 THEN Decimal(p.units + 1, 0) ELSE Decimal(p.units, c)

\* Numeric(10, 2): the rounded value must fit precision - scale integer digits
NumericFits(d) == d.units < 10 ^ (NumericPrecision - NumericScale)

\* the ORM's per-column change test (value == loaded value); a float equals a
\* Decimal only when the decimal fraction is exact in binary
BinaryExact(cents) == cents \in {0, 25, 50, 75}

PriceIsEqual(p, d) == p.units = d.units /\ p.mills = d.cents * 10 /\ BinaryExact(d.cents)

\* model_dump(): the four fields, None for an unset description
Dump(p) == [f \in Fields |-> IF p[f].st = "val" THEN Some(p[f].v) ELSE Null(p[f].v)]

\* dict(exclude_unset=True): the fields present in the body, None included
DumpSet(u) == {f \in Fields : u[f].st # "absent"}

\* the columns whose new value differs from the loaded one: the SET list of the UPDATE
Changed(u, row) ==
    {f \in DumpSet(u) :
        CASE f = "name" -> u.name.st = "null" \/ u.name.v # row.name
          [] f = "description" -> Dump(u).description # row.description
          [] f = "price" -> u.price.st = "null" \/ ~PriceIsEqual(u.price.v, row.price)
          [] OTHER -> u.stock_quantity.st = "null" \/ u.stock_quantity.v # row.stock_quantity}

\* nullable=False on name, price, stock_quantity
NotNullOk(u, cols) == \A f \in cols \ {"description"} : u[f].st # "null"

\* the row an INSERT of the dumped payload stores
InsertRow(p, id, now) ==
    [product_id |-> id,
     name |-> p.name.v,
     description |-> Dump(p).description,
     price |-> RoundNumeric(p.price.v),
     stock_quantity |-> p.stock_quantity.v,
     created_at |-> now,
     updated_at |-> Null(0)]

\* OnUpdate with created_at carrying onupdate=func.now() as well
OnUpdate_Created(row, now) == [row EXCEPT !.updated_at = Some(now), !.created_at = now]

\* onupdate=func.now(): set by every UPDATE statement
OnUpdate(row, now) == [row EXCEPT !.updated_at = Some(now)]

\* mutant: PUT as replacement, an omitted description is stored as NULL
UpdateRow_Replace(u, row, cols, now) ==
    [row EXCEPT
        !.name = IF "name" \in cols THEN u.name.v ELSE @,
        !.description = Dump(u).description,
        !.price = IF "price" \in cols THEN RoundNumeric(u.price.v) ELSE @,
        !.stock_quantity = IF "stock_quantity" \in cols THEN u.stock_quantity.v ELSE @,
        !.updated_at = Some(now)]

\* the row after UPDATE ... SET <cols> (cols non-empty)
UpdateRow(u, row, cols, now) ==
    OnUpdate(
        [row EXCEPT
            !.name = IF "name" \in cols THEN u.name.v ELSE @,
            !.description = IF "description" \in cols THEN Dump(u).description ELSE @,
            !.price = IF "price" \in cols THEN RoundNumeric(u.price.v) ELSE @,
            !.stock_quantity = IF "stock_quantity" \in cols THEN u.stock_quantity.v ELSE @],
        now)

\* mutant: the id is one more than the number of rows in the table
NextId_Reuse(s) == Cardinality(DOMAIN store) + 1

\* autoincrement=True: the next value of the sequence, never handed out twice
NextId(s) == s + 1


-----------------------------------------------------------------------------
(* main.py: startup_event *)

max_retries == 10
retry_delay_seconds == 5

\* startup_event has not run yet
Booting ==
    [pc |-> "attempt", i |-> 0, attempts |-> 0, succeeded |-> 0, sleeps |-> 0,
     slept |-> 0, last |-> "none", exit |-> -1]

\* the first create_all succeeded
Ready ==
    [pc |-> "ready", i |-> 0, attempts |-> 1, succeeded |-> 1, sleeps |-> 0,
     slept |-> 0, last |-> "ok", exit |-> -1]

\* the application serves requests only after startup_event returned
Serving == boot.pc = "ready"

\* what one Base.metadata.create_all(bind=engine) can do: return, raise
\* OperationalError (no connection), or raise any other Exception
Outcomes == {"ok", "OperationalError", "Exception"}

\* sys.exit(1)
Exit(b) == [b EXCEPT !.pc = "exit", !.exit = 1]

\* AfterOperationalError that sleeps after the last attempt as well
AfterOperationalError_SleepLast(b) ==
    IF b.i < max_retries
    THEN [b EXCEPT !.pc = "sleep"]
    ELSE Exit(b)

\* except OperationalError: sleep if an attempt is left, else exit
AfterOperationalError(b) ==
    IF b.i < max_retries - 1
    THEN [b EXCEPT !.pc = "sleep"]
    ELSE Exit(b)

\* Attempt with a single except clause that retries on every exception
Attempt_CatchAll(b, outcome) ==
    LET a == [b EXCEPT !.attempts = @ + 1, !.last = outcome]
    IN  IF b.i >= max_retries
        THEN [b EXCEPT !.pc = "ready"]
        ELSE IF outcome = "ok"
             THEN [a EXCEPT !.pc = "ready", !.succeeded = @ + 1]
             ELSE AfterOperationalError(a)

\* one pass of the for loop: the loop ends when range(max_retries) is used
\* up, else create_all runs and the try statement handles its outcome
Attempt(b, outcome) ==
    LET a == [b EXCEPT !.attempts = @ + 1, !.last = outcome]
    IN  IF b.i >= max_retries
        THEN [b EXCEPT !.pc = "ready"]
        ELSE CASE outcome = "ok" -> [a EXCEPT !.pc = "ready", !.succeeded = @ + 1]
               [] outcome = "OperationalError" -> AfterOperationalError(a)
               [] OTHER -> Exit(a)

\* time.sleep(retry_delay_seconds), then the next value of i
Sleep(b) ==
    [b EXCEPT !.pc = "attempt", !.i = @ + 1, !.sleeps = @ + 1,
              !.slept = @ + retry_delay_seconds]

-----------------------------------------------------------------------------
(* Requests and responses *)

NoPayload == Payload(Absent(NoStr), Absent(NoStr), Absent(NoFloat), Absent(NoInt))

Req(op, id, payload, skip, limit, search, order, fault) ==
    [op |-> op, id |-> id, payload |-> payload, skip |-> skip, limit |-> limit,
     search |-> search, order |-> order, fault |-> fault]

Resp(status, detail, body) == [status |-> status, detail |-> detail, body |-> body]

NotFound == Resp(404, "Product not found", <<>>)
Unprocessable == Resp(422, "validation error", <<>>)
\* a ResponseValidationError is not an HTTPException: the server's plain 500
ResponseInvalid == Resp(500, "Internal Server Error", <<>>)

Put(st, row) == [i \in DOMAIN st \cup {row.product_id} |-> IF i = row.product_id THEN row ELSE st[i]]
Remove(st, id) == [i \in DOMAIN st \ {id} |-> st[i]]

\* the outcome of one request: the store, the sequence, the clock, the handler's
\* return value, the response and the 204-deleted ids after it
Finish(rq, st, sq, ck, rt, rs, del) ==
    /\ req' = rq
    /\ prev' = store
    /\ store' = st
    /\ seq' = sq
    /\ clock' = ck
    /\ ret' = rt
    /\ resp' = rs
    /\ deleted' = del
    /\ Serving
    /\ UNCHANGED <<boot, sessions, inflight>>

\* response_model validation of what the handler returned, then the status
Serialize(rows, okStatus) ==
    IF \A i \in 1..Len(rows) : ProductResponse(rows[i])
    THEN Resp(okStatus, "", [i \in 1..Len(rows) |-> ResponseBody(rows[i])])
    ELSE ResponseInvalid

-----------------------------------------------------------------------------
(* main.py: the handlers.  fault is the store's failure during the unit of   *)
(* work ("none", "commit": the flush or COMMIT raises, "refresh": the SELECT *)
(* of db.refresh raises after the COMMIT); burn tells whether a failed       *)
(* INSERT had already drawn a product_id from the sequence.                  *)

\* POST /products/
CreateProduct(p, fault, burn, cap) ==
    LET rq == Req("create", 0, p, DefaultSkip, DefaultLimit, Absent(NoStr), <<>>, fault)
        id == NextId(seq)
        now == clock + 1
        row == InsertRow(p, id, now)
    IN  IF ~ProductCreate(p)
        THEN /\ fault = "none" /\ burn
             /\ Finish(rq, store, seq, clock, <<>>, Unprocessable, deleted)
        ELSE /\ clock < cap
             /\ IF fault = "commit" \/ ~NumericFits(row.price)
                THEN \* except: db.rollback(); HTTPException(500)
                     /\ fault # "refresh"
                     /\ Finish(rq, store, IF burn THEN id ELSE seq, now, <<>>,
                               Resp(500, "Could not create product.", <<>>), deleted)
                ELSE /\ burn
                     /\ IF fault = "refresh"
                        THEN \* the COMMIT is done; rollback() undoes nothing
                             Finish(rq, Put(store, row), id, now, <<>>,
                                    Resp(500, "Could not create product.", <<>>), deleted)
                        ELSE Finish(rq, Put(store, row), id, now, <<row>>,
                                    Serialize(<<row>>, 201), deleted)

\* GET /products/{product_id}
GetProduct(id) ==
    LET rq == Req("get", id, NoPayload, DefaultSkip, DefaultLimit, Absent(NoStr), <<>>, "none")
    IN  IF id \notin DOMAIN store
        THEN Finish(rq, store, seq, clock, <<>>, NotFound, deleted)
        ELSE Finish(rq, store, seq, clock, <<store[id]>>, Serialize(<<store[id]>>, 200), deleted)

\* PUT /products/{product_id}
UpdateProduct(id, u, fault, cap) ==
    LET rq == Req("update", id, u, DefaultSkip, DefaultLimit, Absent(NoStr), <<>>, fault)
        now == clock + 1
    IN  IF ~ProductUpdate(u)
        THEN /\ fault = "none"
             /\ Finish(rq, store, seq, clock, <<>>, Unprocessable, deleted)
        ELSE IF id \notin DOMAIN store
        THEN /\ fault = "none"
             /\ Finish(rq, store, seq, clock, <<>>, NotFound, deleted)
        ELSE LET cols == Changed(u, store[id])
                 \* no column differs: the flush emits no UPDATE and onupdate does not run
                 row == IF cols = {} THEN store[id] ELSE UpdateRow(u, store[id], cols, now)
             IN  /\ clock < cap
                 /\ IF fault = "commit" \/ ~NotNullOk(u, cols) \/ ~NumericFits(row.price)
                    THEN /\ fault # "refresh"
                         /\ Finish(rq, store, seq, now, <<>>,
                                   Resp(500, "Could not update product.", <<>>), deleted)
                    ELSE IF fault = "refresh"
                    THEN Finish(rq, Put(store, row), seq, now, <<>>,
                                Resp(500, "Could not update product.", <<>>), deleted)
                    ELSE Finish(rq, Put(store, row), seq, now, <<row>>,
                                Serialize(<<row>>, 200), deleted)

\* mutant: delete without the existence check, 204 whether or not a row went
DeleteProduct_NoCheck(id, fault, cap) ==
    LET rq == Req("delete", id, NoPayload, DefaultSkip, DefaultLimit, Absent(NoStr), <<>>, fault)
    IN  /\ clock < cap
        /\ fault = "none"
        /\ Finish(rq, Remove(store, id), seq, clock + 1, <<>>, Resp(204, "", <<>>),
                  deleted \cup {id})

\* DELETE /products/{product_id}
DeleteProduct(id, fault, cap) ==
    LET rq == Req("delete", id, NoPayload, DefaultSkip, DefaultLimit, Absent(NoStr), <<>>, fault)
        now == clock + 1
    IN  IF id \notin DOMAIN store
        THEN /\ fault = "none"
             /\ Finish(rq, store, seq, clock, <<>>, NotFound, deleted)
        ELSE /\ clock < cap
             /\ IF fault = "commit"
                THEN Finish(rq, store, seq, now, <<>>,
                            Resp(500, "An error occurred while deleting the product.", <<>>),
                            deleted)
                ELSE Finish(rq, Remove(store, id), seq, now, <<>>,
                            Resp(204, "", <<>>), deleted \cup {id})

-----------------------------------------------------------------------------
(* main.py: list_products *)

Lower(c) == CASE c = "A" -> "a" [] c = "B" -> "b" [] OTHER -> c

LowerStr(s) == [i \in 1..Len(s) |-> Lower(s[i])]

Tail2(s) == SubSeq(s, 3, Len(s))

\* SQL LIKE: % any run of characters, _ any one character, \ escapes the next
RECURSIVE Like(_, _)
Like(pat, txt) ==
    IF pat = <<>> THEN txt = <<>>
    ELSE IF pat[1] = "%"
         THEN Like(Tail(pat), txt) \/ (txt # <<>> /\ Like(pat, Tail(txt)))
    ELSE IF pat[1] = "_"
         THEN txt # <<>> /\ Like(Tail(pat), Tail(txt))
    ELSE IF pat[1] = "\\" /\ Len(pat) >= 2
         THEN txt # <<>> /\ txt[1] = pat[2] /\ Like(Tail2(pat), Tail(txt))
    ELSE txt # <<>> /\ txt[1] = pat[1] /\ Like(Tail(pat), Tail(txt))

\* column ILIKE pattern: LIKE on the case-folded operands; NULL ILIKE x is not true
ILike(col, pat) == ~col.isnull /\ Like(LowerStr(pat), LowerStr(col.v))

\* f"%{search}%"
SearchPattern(search) == <<"%">> \o search \o <<"%">>

\* the WHERE clause of the query; `if search:` skips None and ""
Matches(row, search) ==
    IF search.st = "val" /\ search.v # <<>>
    THEN \/ ILike(Some(row.name), SearchPattern(search.v))
         \/ ILike(row.description, SearchPattern(search.v))
    ELSE TRUE

\* ListParamsOk with the le=100 of limit left out
ListParamsOk_NoLe(skip, limit, search) ==
    /\ skip >= SkipMin
    /\ limit >= LimitMin
    /\ search.st = "val" => Len(search.v) <= SearchMaxLen

\* Query(0, ge=0), Query(100, ge=1, le=100), Query(None, max_length=255)
ListParamsOk(skip, limit, search) ==
    /\ skip >= SkipMin
    /\ limit >= LimitMin /\ limit <= LimitMax
    /\ search.st = "val" => Len(search.v) <= SearchMaxLen

\* the rows the WHERE clause keeps, in the order the store scans them
Filtered(st, order, search) ==
    SelectSeq([i \in 1..Len(order) |-> st[order[i]]], LAMBDA r : Matches(r, search))

\* mutant: the slice [skip:limit] in place of offset and limit
Page_Slice(rows, skip, limit) == SubSeq(rows, skip + 1, Min(Len(rows), limit))

\* .offset(skip).limit(limit)
Page(rows, skip, limit) == SubSeq(rows, skip + 1, Min(Len(rows), skip + limit))

\* the ids of S in ascending order
Ascending(S) ==
    [i \in 1..Cardinality(S) |-> CHOOSE x \in S : Cardinality({y \in S : y <= x}) = i]

Reverse(o) == [i \in 1..Len(o) |-> o[Len(o) + 1 - i]]

\* the query has no ORDER BY: the store may scan the rows in any order; the
\* model draws the order from insertion order and its reverse
Orders(S) == {Ascending(S), Reverse(Ascending(S))}

\* the value of a query parameter: Query(default, ...) stands in when the
\* query string omits it
QueryDefault(q, default) == IF q.st = "absent" THEN default ELSE q.v

\* GET /products/ with the query string as sent: skipQ and limitQ are absent
\* or carry an integer.  A 422 is answered before the handler body runs, so
\* the store is not scanned (order = <<>>); otherwise one SELECT is answered
\* by the store in the order it chooses.
ListQuery(skipQ, limitQ, search, order) ==
    LET skip == QueryDefault(skipQ, DefaultSkip)
        limit == QueryDefault(limitQ, DefaultLimit)
        rq == Req("list", 0, NoPayload, skip, limit, search, order, "none")
                @@ [query |-> [skip |-> skipQ, limit |-> limitQ]]
        products == Page(Filtered(store, order, search), skip, limit)
    IN  IF ~ListParamsOk(skip, limit, search)
        THEN /\ order = <<>>
             /\ Finish(rq, store, seq, clock, <<>>, Unprocessable, deleted)
        ELSE /\ order \in Orders(DOMAIN store)
             /\ Finish(rq, store, seq, clock, products, Serialize(products, 200), deleted)

\* GET /products/?skip&limit&search with skip and limit both given
ListProducts(skip, limit, search, order) ==
    ListQuery(Val(skip), Val(limit), search, order)

-----------------------------------------------------------------------------
(* The state after construction: an empty table, no request yet *)

EmptyStore == [i \in {} |-> 0]

Init ==
    /\ store = EmptyStore
    /\ seq = 0
    /\ clock = 0
    /\ req = Req("none", 0, NoPayload, DefaultSkip, DefaultLimit, Absent(NoStr), <<>>, "none")
    /\ prev = EmptyStore
    /\ ret = <<>>
    /\ resp = Resp(0, "", <<>>)
    /\ deleted = {}
    /\ boot = Ready
    /\ sessions = <<>>
    /\ inflight = <<>>

WriteFaults == {"none", "commit", "refresh"}
DeleteFaults == {"none", "commit"}

-----------------------------------------------------------------------------
(* Lifecycle specification: create, get, update and delete over a few       *)
(* payloads that reach every branch of the handlers.                        *)

NameA == <<"a">>
NameB == <<"A", "b">>
DescB == <<"b">>

Ids == 1..MaxClock

CreatePayloads ==
    { Payload(Val(NameA), Absent(NoStr), Val(Float(15, 750)), Val(0)),
      Payload(Val(NameB), Val(DescB), Val(Float(10, 999)), Val(5)),
      Payload(Val(NameA), Absent(NoStr), Val(Float(0, 4)), Val(0)),
      Payload(Val(NameA), Absent(NoStr), Val(Float(10 ^ 8, 0)), Val(0)),
      Payload(Absent(NoStr), Absent(NoStr), Val(Float(15, 750)), Val(0)) }

UpdatePayloads ==
    { NoPayload,
      Payload(Val(NameB), Absent(NoStr), Absent(NoFloat), Absent(NoInt)),
      Payload(Absent(NoStr), Absent(NoStr), Val(Float(10, 999)), Absent(NoInt)),
      Payload(Absent(NoStr), Absent(NoStr), Val(Float(15, 750)), Absent(NoInt)),
      Payload(Absent(NoStr), JsonNull(NoStr), Absent(NoFloat), Val(5)),
      Payload(JsonNull(NoStr), Absent(NoStr), Absent(NoFloat), Absent(NoInt)),
      Payload(Val(NameA), Val(DescB), Val(Float(11, 0)), Val(7)),
      Payload(Absent(NoStr), Absent(NoStr), Val(Float(0, 4)), Absent(NoInt)),
      Payload(Absent(NoStr), Absent(NoStr), Val(Float(0, 0)), Absent(NoInt)) }

create_product ==
    \E p \in CreatePayloads, f \in WriteFaults, b \in BOOLEAN : CreateProduct(p, f, b, MaxClock)

get_product ==
    \E id \in Ids : GetProduct(id)

update_product ==
    \E id \in Ids, u \in UpdatePayloads, f \in WriteFaults : UpdateProduct(id, u, f, MaxClock)

delete_product ==
    \E id \in Ids, f \in DeleteFaults : DeleteProduct(id, f, MaxClock)

Next == create_product \/ get_product \/ update_product \/ delete_product

Spec == Init /\ [][Next]_vars

-----------------------------------------------------------------------------
(* Properties of the lifecycle specification *)

Positive(d) == d.units > 0 \/ (d.units = 0 /\ d.cents > 0)

\* stored price minus requested price, in thousandths
RoundingError(d, p) == (d.units - p.units) * 1000 + d.cents * 10 - p.mills

UpdateOk == req.op = "update" /\ resp.status = 200

\* the value a payload field asks for, in the shape of the stored column
Asked(u, f) ==
    CASE f = "name" -> u.name.v
      [] f = "description" -> IF u.description.st = "val" THEN Some(u.description.v) ELSE Null(NoStr)
      [] f = "price" -> u.price.v
      [] OTHER -> u.stock_quantity.v

\* C1 as stated: a successful update sets every field present in the payload to
\* the payload's value, keeps every absent field, and answers with the merged row.
C1_UpdateSetsPayloadValues ==
    UpdateOk =>
        /\ \A f \in Fields :
              IF req.payload[f].st = "absent"
              THEN store[req.id][f] = prev[req.id][f]
              ELSE IF f = "price"
                   THEN ToFloat(store[req.id].price) = Asked(req.payload, f)
                   ELSE store[req.id][f] = Asked(req.payload, f)
        /\ resp.body = <<ResponseBody(store[req.id])>>

\* C1 amended: a successful update sets every field present in the payload to the
\* payload's value, the price rounded to 2 decimal places (half up), keeps every
\* absent field, and answers with the merged row.
C1_PartialUpdate ==
    UpdateOk =>
        /\ \A f \in Fields :
              IF req.payload[f].st = "absent"
              THEN store[req.id][f] = prev[req.id][f]
              ELSE IF f = "price"
                   THEN /\ store[req.id].price.cents \in 0..99
                        /\ RoundingError(store[req.id].price, req.payload.price.v) \in -4..5
                   ELSE store[req.id][f] = Asked(req.payload, f)
        /\ resp.body = <<ResponseBody(store[req.id])>>

\* a partial update that changed the name and kept a non-null description
C1_Witness ==
    /\ UpdateOk
    /\ req.payload.name.st = "val" /\ req.payload.description.st = "absent"
    /\ req.payload.price.st = "absent"
    /\ store[req.id].name # prev[req.id].name
    /\ ~store[req.id].description.isnull

\* C2 as stated: every valid create answers 201 with the generated id, and a get
\* of that id right after it answers 200 with the same fields.
C2_RoundTrip ==
    [][ /\ (req'.op = "create" /\ ProductCreate(req'.payload) /\ req'.fault = "none")
            => (resp'.status = 201 /\ Len(resp'.body) = 1 /\ resp'.body[1].product_id = seq')
        /\ (req.op = "create" /\ resp.status = 201 /\ req'.op = "get"
              /\ req'.id = resp.body[1].product_id)
            => (resp'.status = 200 /\ resp'.body = resp.body) ]_vars

\* C3: once delete_product answered 204 for an id, the id has no record in any
\* later state and every later get or delete of it answers 404 Product not found.
C3_DeleteFinality ==
    [][ \A id \in deleted :
          /\ id \notin DOMAIN store'
          /\ (req'.op \in {"get", "delete"} /\ req'.id = id) => resp' = NotFound ]_vars

\* a get of a deleted id answered 404 after a later create had stored a new record
C3_Witness ==
    /\ req.op = "get" /\ req.id \in deleted /\ resp = NotFound
    /\ \E id \in DOMAIN store : id > req.id

\* C4 as stated: every stored record has price > 0, stock_quantity >= 0 and a
\* non-empty name.
C4_StoredRecordsValid ==
    \A id \in DOMAIN store :
        /\ Positive(store[id].price)
        /\ store[id].stock_quantity >= 0
        /\ Len(store[id].name) >= 1

\* C5 as stated: updated_at is null in a created record, changes in no step but a
\* successful update of that record, and every update answering 200 sets it to
\* the time of that update.
C5_UpdatedAtRefreshed ==
    [][ /\ \A id \in DOMAIN store' \ DOMAIN store : store'[id].updated_at.isnull
        /\ \A id \in DOMAIN store' \cap DOMAIN store :
              store'[id].updated_at # store[id].updated_at
                 => (req'.op = "update" /\ req'.id = id)
        /\ (req'.op = "update" /\ resp'.status = 200)
              => store'[req'.id].updated_at = Some(clock') ]_vars

PersistenceDetails ==
    { "Could not create product.", "Could not update product.",
      "An error occurred while deleting the product." }

\* C6 as stated: when create, update or delete answers with its 500 persistence
\* error, the store is what it was before the request.
C6_RollbackOn500 ==
    (req.op \in {"create", "update", "delete"} /\ resp.status = 500
        /\ resp.detail \in PersistenceDetails)
      => store = prev

\* C7: get, update (with a valid payload) and delete of an id that has no record
\* answer 404 Product not found and leave the store as it was; get never changes
\* the store.
C7_NotFound ==
    /\ ( /\ req.op \in {"get", "update", "delete"}
         /\ req.op = "update" => ProductUpdate(req.payload)
         /\ req.id \notin DOMAIN prev )
       => (resp = Resp(404, "Product not found", <<>>) /\ store = prev)
    /\ req.op = "get" => store = prev

\* an update and a delete of a deleted id, and a get of an id never created
C7_Witness ==
    /\ req.op \in {"update", "delete"}
    /\ req.id \notin DOMAIN prev
    /\ resp.status = 404
    /\ store # EmptyStore

-----------------------------------------------------------------------------
(* Validation specification: create and update over payloads that vary one   *)
(* field of a valid payload at a time, up to both sides of every limit.      *)

BaseCreate == Payload(Val(NameA), Absent(NoStr), Val(Float(15, 750)), Val(0))

BaseUpdate == Payload(Val(NameB), Val(DescB), Val(Float(11, 0)), Val(7))

VNames ==
    { Absent(NoStr), JsonNull(NoStr), Val(<<>>), Val(NameB),
      Val(Rep("a", NameMaxLen)), Val(Rep("a", NameMaxLen + 1)) }

VDescs ==
    { Absent(NoStr), JsonNull(NoStr), Val(<<>>),
      Val(Rep("b", DescMaxLen)), Val(Rep("b", DescMaxLen + 1)) }

VPrices ==
    { Absent(NoFloat), JsonNull(NoFloat), Val(Float(-1, 0)), Val(Float(0, -10)),
      Val(Float(0, 0)), Val(Float(0, 10)), Val(Float(0, 4)) }

VStocks == { Absent(NoInt), JsonNull(NoInt), Val(-1), Val(0), Val(1) }

\* base with one field replaced, and base with two
Variations(base) ==
    {[base EXCEPT !.name = n] : n \in VNames}
      \cup {[base EXCEPT !.description = d] : d \in VDescs}
      \cup {[base EXCEPT !.price = x] : x \in VPrices}
      \cup {[base EXCEPT !.stock_quantity = k] : k \in VStocks}
      \cup {[base EXCEPT !.price = x, !.stock_quantity = k] :
                x \in {Val(Float(0, 0)), Val(Float(0, 10))}, k \in {Val(-1), Val(0)}}

VCreatePayloads == Variations(BaseCreate)

\* base with one field left out of the body
Omissions(base) ==
    { [base EXCEPT !.name = Absent(NoStr)], [base EXCEPT !.description = Absent(NoStr)],
      [base EXCEPT !.price = Absent(NoFloat)], [base EXCEPT !.stock_quantity = Absent(NoInt)] }

VUpdatePayloads == Variations(NoPayload) \cup Omissions(BaseUpdate) \cup {BaseUpdate}

VIds == {1}

v_create_product ==
    \E p \in VCreatePayloads : CreateProduct(p, "none", TRUE, MaxClockV)

v_update_product ==
    \E id \in VIds, u \in VUpdatePayloads : UpdateProduct(id, u, "none", MaxClockV)

NextV == v_create_product \/ v_update_product

SpecV == Init /\ [][NextV]_vars

\* the claim's conditions, in its words
LeZero(p) == p.units < 0 \/ (p.units = 0 /\ p.mills <= 0)

ConstraintViolated(u) ==
    \/ u.name.st = "val" /\ (Len(u.name.v) < 1 \/ Len(u.name.v) > 255)
    \/ u.description.st = "val" /\ Len(u.description.v) > 2000
    \/ u.price.st = "val" /\ LeZero(u.price.v)
    \/ u.stock_quantity.st = "val" /\ u.stock_quantity.v < 0

\* a required field is missing when the body gives it no value (absent or null)
RequiredMissing(p) ==
    p.name.st # "val" \/ p.price.st # "val" \/ p.stock_quantity.st # "val"

\* C8: a create is answered 422 exactly when a provided field violates its
\* constraint or name, price or stock_quantity has no value; an update exactly
\* when a provided field violates its constraint; a 422 leaves the store (and the
\* id sequence) untouched.
C8_Validation ==
    /\ req.op = "create"
         => (resp.status = 422 <=> (ConstraintViolated(req.payload) \/ RequiredMissing(req.payload)))
    /\ req.op = "update"
         => (resp.status = 422 <=> ConstraintViolated(req.payload))
    /\ resp.status = 422 => (store = prev /\ ret = <<>>)

\* the boundary values price = 0.01 and stock_quantity = 0 were accepted and stored
C8_Witness ==
    /\ req.op = "create" /\ resp.status = 201
    /\ req.payload.price.v = Float(0, 10) /\ req.payload.stock_quantity.v = 0
    /\ store[seq].price = Decimal(0, 1)

-----------------------------------------------------------------------------
(* Search specification: a few rows, then list_products over search terms,   *)
(* offsets, limits and scan orders.                                          *)

NameU == <<"a", "_">>
DescBa == <<"B", "a">>

LCreatePayloads ==
    { Payload(Val(NameB), Absent(NoStr), Val(Float(15, 750)), Val(0)),
      Payload(Val(DescB), Val(DescBa), Val(Float(15, 750)), Val(0)),
      Payload(Val(NameU), Absent(NoStr), Val(Float(0, 4)), Val(0)) }

LTerms ==
    { Absent(NoStr), Val(<<>>), Val(<<"a">>), Val(<<"A", "B">>), Val(<<"b", "a">>),
      Val(<<"c">>), Val(<<"_">>), Val(Rep("a", SearchMaxLen + 1)) }

LQueries ==
    ({0, 1, MaxRowsL} \X {1, LimitMax} \X (LTerms \ {Val(Rep("a", SearchMaxLen + 1))}))
      \cup { <<-1, DefaultLimit, Absent(NoStr)>>,
             <<DefaultSkip, 0, Absent(NoStr)>>,
             <<DefaultSkip, LimitMax + 1, Absent(NoStr)>>,
             <<DefaultSkip, DefaultLimit, Val(Rep("a", SearchMaxLen + 1))>> }

l_create_product ==
    \E p \in LCreatePayloads : CreateProduct(p, "none", TRUE, MaxRowsL)

l_list_products ==
    \E order \in Orders(DOMAIN store) \cup {<<>>}, q \in LQueries :
        ListProducts(q[1], q[2], q[3], order)

NextL == l_create_product \/ l_list_products

SpecL == Init /\ [][NextL]_vars

Contains(txt, term) ==
    \E i \in 0..(Len(txt) - Len(term)) : SubSeq(txt, i + 1, i + Len(term)) = term

\* name or description contains the term as a literal substring, case folded
LiteralMatch(row, term) ==
    \/ Contains(LowerStr(row.name), LowerStr(term))
    \/ ~row.description.isnull /\ Contains(LowerStr(row.description.v), LowerStr(term))

ListOk == req.op = "list" /\ req.skip >= 0 /\ req.limit >= 1 /\ req.limit <= 100

RetIds == {ret[i].product_id : i \in 1..Len(ret)}

\* C9 as stated: with a search term of at most 255 characters the handler
\* returns, when the page holds every match, exactly the records whose name or
\* description contains the term literally (case-insensitively); with no term
\* every record; an empty result is answered 200.
C9_SearchLiteral ==
    (ListOk /\ req.skip = 0 /\ req.limit >= Cardinality(DOMAIN store)
        /\ (req.search.st = "val" => Len(req.search.v) <= 255))
      => /\ RetIds = IF req.search.st = "val"
                     THEN {id \in DOMAIN store : LiteralMatch(store[id], req.search.v)}
                     ELSE DOMAIN store
         /\ ret = <<>> => resp = Resp(200, "", <<>>)

\* the rows that match the request's search, in the order the store scanned them
Matching == Filtered(store, req.order, req.search)

\* C10: for skip >= 0 and 1 <= limit <= 100 the handler returns the matching
\* rows at positions skip+1 .. skip+n of the store's result sequence, where
\* n = min(limit, max(0, m - skip)) and m rows match; never more than limit; and
\* for skip >= m the empty list, answered 200.
C10_Pagination ==
    (ListOk /\ (req.search.st = "val" => Len(req.search.v) <= 255))
      => LET m == Len(Matching)
             n == Min(req.limit, Max(0, m - req.skip))
         IN  /\ Len(ret) = n
             /\ \A i \in 1..n : ret[i] = Matching[req.skip + i]
             /\ Len(ret) <= req.limit
             /\ req.skip >= m => (ret = <<>> /\ resp = Resp(200, "", <<>>))

\* a page cut by the offset at its start and by the limit at its end
C10_Witness ==
    /\ ListOk /\ req.skip = 1 /\ req.limit = 1 /\ Len(Matching) = 3
    /\ Len(ret) = 1 /\ ret[1] = Matching[2]

-----------------------------------------------------------------------------
(* Query-string specification: list_products over a table of a few rows,    *)
(* with skip and limit omitted, at and beyond their limits.                 *)

MaxRowsQ == 2

QSkips == {Absent(NoInt), Val(-1), Val(SkipMin), Val(1)}
QLimits == {Absent(NoInt), Val(LimitMin - 1), Val(LimitMin), Val(LimitMax), Val(LimitMax + 1)}

QCreatePayloads ==
    { Payload(Val(NameB), Absent(NoStr), Val(Float(15, 750)), Val(0)),
      Payload(Val(DescB), Val(DescBa), Val(Float(15, 750)), Val(0)) }

QTerms == {Absent(NoStr), Val(<<"a">>)}

q_create_product ==
    \E p \in QCreatePayloads : CreateProduct(p, "none", TRUE, MaxRowsQ)

q_list_products ==
    \E order \in Orders(DOMAIN store) \cup {<<>>}, skipQ \in QSkips, limitQ \in QLimits,
       search \in QTerms :
        ListQuery(skipQ, limitQ, search, order)

NextQ == q_create_product \/ q_list_products

SpecQ == Init /\ [][NextQ]_vars

\* the integer the query string carries for a parameter, if it carries one
Sent(q) == q.st = "val"

\* the query string of the last list request breaks ge=0, ge=1 or le=100
OutOfRange ==
    \/ Sent(req.query.skip) /\ req.query.skip.v < 0
    \/ Sent(req.query.limit) /\ (req.query.limit.v < 1 \/ req.query.limit.v > 100)

\* C11: a list request with skip < 0, limit < 1 or limit > 100 is answered 422
\* and the store is neither scanned nor changed; a request within range is
\* not answered 422 and its query scans the table; an omitted skip reaches the
\* handler as 0 and an omitted limit as 100.
C11_ListParams ==
    req.op = "list" =>
        /\ OutOfRange => /\ resp = Unprocessable
                         /\ req.order = <<>>
                         /\ ret = <<>>
                         /\ store = prev
        /\ ~OutOfRange => /\ resp.status # 422
                          /\ Len(req.order) = Cardinality(DOMAIN store)
                          /\ ret = Page(Filtered(store, req.order, req.search), req.skip, req.limit)
        /\ ~Sent(req.query.skip) => req.skip = 0
        /\ ~Sent(req.query.limit) => req.limit = 100

\* a request with limit = 101 was refused over a table that holds rows
C11_Witness ==
    /\ req.op = "list"
    /\ Sent(req.query.limit) /\ req.query.limit.v = 101
    /\ ~Sent(req.query.skip)
    /\ resp.status = 422
    /\ DOMAIN store # {}

-----------------------------------------------------------------------------
(* Startup specification: startup_event from its first attempt, and the     *)
(* requests served once it has returned.  Each create_all and each sleep    *)
(* returns, so the steps of startup_event are weakly fair.                  *)

MaxClockS == 1

InitS ==
    /\ store = EmptyStore
    /\ seq = 0
    /\ clock = 0
    /\ req = Req("none", 0, NoPayload, DefaultSkip, DefaultLimit, Absent(NoStr), <<>>, "none")
    /\ prev = EmptyStore
    /\ ret = <<>>
    /\ resp = Resp(0, "", <<>>)
    /\ deleted = {}
    /\ boot = Booting
    /\ sessions = <<>>
    /\ inflight = <<>>

startup_attempt ==
    /\ boot.pc = "attempt"
    /\ \E outcome \in Outcomes : boot' = Attempt(boot, outcome)
    /\ UNCHANGED <<store, seq, clock, req, prev, ret, resp, deleted, sessions, inflight>>

startup_sleep ==
    /\ boot.pc = "sleep"
    /\ boot' = Sleep(boot)
    /\ UNCHANGED <<store, seq, clock, req, prev, ret, resp, deleted, sessions, inflight>>

startup_event == startup_attempt \/ startup_sleep

s_create_product ==
    \E p \in CreatePayloads, fault \in WriteFaults : CreateProduct(p, fault, TRUE, MaxClockS)

s_get_product == \E id \in 1..MaxClockS : GetProduct(id)

NextS == startup_event \/ s_create_product \/ s_get_product

SpecS == InitS /\ [][NextS]_vars /\ WF_vars(startup_event)

\* C12: requests are served only after a create_all succeeded; when all
\* max_retries attempts raised OperationalError the process has exited with
\* status 1; an attempt that raised any other exception is the last one and
\* the process has exited with status 1; an exit has no other cause.
C12_ReadyOnlyAfterSuccess ==
    /\ (Serving \/ req.op # "none") => boot.succeeded = 1 /\ boot.last = "ok" /\ boot.exit = -1
    /\ (boot.last = "OperationalError" /\ boot.attempts = max_retries)
            => boot.pc = "exit" /\ boot.exit = 1
    /\ boot.last = "Exception" => boot.pc = "exit" /\ boot.exit = 1
    /\ boot.pc = "exit" => /\ boot.exit = 1
                           /\ boot.succeeded = 0
                           /\ \/ boot.last = "Exception"
                              \/ boot.last = "OperationalError" /\ boot.attempts = max_retries

\* ten attempts raised OperationalError and the process exited with status 1
C12_Witness ==
    /\ boot.pc = "exit" /\ boot.exit = 1
    /\ boot.attempts = max_retries
    /\ boot.last = "OperationalError"

\* startup_event is over
Terminated == boot.pc \in {"ready", "exit"}

\* counts of startup_event: at most max_retries attempts, a sleep after every
\* failed attempt but the last one, no attempt after a success
StartupCounts ==
    /\ boot.attempts <= max_retries
    /\ boot.sleeps <= max_retries - 1
    /\ boot.slept = boot.sleeps * retry_delay_seconds
    /\ boot.succeeded <= 1
    /\ boot.pc = "attempt" => boot.sleeps = boot.attempts /\ boot.succeeded = 0
    /\ boot.pc = "sleep" => boot.sleeps = boot.attempts - 1 /\ boot.succeeded = 0
    /\ Terminated => boot.sleeps = boot.attempts - 1
    /\ boot.pc = "ready" <=> boot.succeeded = 1
    /\ boot.pc = "ready" => boot.exit = -1
    /\ boot.pc = "exit" <=> boot.exit = 1
    /\ boot.exit \in {-1, 1}

\* C15: startup_event terminates, after at most 10 attempts and at most 9
\* sleeps, each sleep between two attempts; it stops at the first success;
\* it ends either ready or exited with status 1, and stays so.
C15_StartupTerminates ==
    /\ []StartupCounts
    /\ [][Terminated => boot' = boot]_vars
    /\ <>Terminated

\* the tenth attempt succeeded after nine sleeps
C15_Witness ==
    /\ boot.pc = "ready"
    /\ boot.attempts = max_retries
    /\ boot.sleeps = max_retries - 1

-----------------------------------------------------------------------------
(* db.py: get_db, and the handlers step by step.  A request is handled in   *)
(* up to four steps, each one access to the store at most: it arrives       *)
(* (get_db makes its session, the body is validated, the handler runs up    *)
(* to and including its SELECT), it commits (flush and COMMIT), it          *)
(* refreshes (the SELECT of db.refresh), and get_db's finally closes the    *)
(* session.  Steps of different requests interleave freely; PostgreSQL      *)
(* runs each statement at READ COMMITTED.                                   *)

\* db = SessionLocal(): a new session, used by request r
SessionLocal(ss, r) == Append(ss, [owner |-> r, closes |-> 0])

\* db.close()
CloseSession(ss, db) == [ss EXCEPT ![db].closes = @ + 1]

\* get_db with db.close() after the yield but not in a finally
GetDbExit_NoFinally(ss, db, rs) == IF rs.status < 400 THEN CloseSession(ss, db) ELSE ss

\* get_db after the yield: finally db.close(), whatever the handler did
GetDbExit(ss, db, rs) == CloseSession(ss, db)

\* an exception no handler catches
Unhandled == Resp(500, "Internal Server Error", <<>>)

NoResp == Resp(0, "", <<>>)

\* a request in flight: its session db, its step pc, the rows its session
\* has loaded, the clock when it arrived (tf) and of its commit (tc)
Request(op, id, u, fault, db, pc, loaded, rs, tf) ==
    [op |-> op, id |-> id, u |-> u, fault |-> fault, db |-> db, pc |-> pc,
     loaded |-> loaded, resp |-> rs, tf |-> tf, tc |-> 0]

\* UpdateStatement as an upsert: a row that is gone is written back
UpdateStatement_Merge(st, id, u, cols, loaded, now) ==
    IF id \in DOMAIN st
    THEN [rows |-> 1, st |-> Put(st, UpdateRow(u, st[id], cols, now))]
    ELSE [rows |-> 1, st |-> Put(st, UpdateRow(u, loaded, cols, now))]

\* UPDATE products SET <cols> WHERE product_id = id: the rows it matched and
\* the table after it
UpdateStatement(st, id, u, cols, loaded, now) ==
    IF id \in DOMAIN st
    THEN [rows |-> 1, st |-> Put(st, UpdateRow(u, st[id], cols, now))]
    ELSE [rows |-> 0, st |-> st]

\* the detail of the 500 each handler raises from its except clause
Detail500(op) ==
    CASE op = "create" -> "Could not create product."
      [] op = "update" -> "Could not update product."
      [] OTHER -> "An error occurred while deleting the product."

\* a request arrives: get_db makes its session, and the handler has run as
\* far as pc says
Arrive(op, id, u, fault, pc, loaded, rs) ==
    /\ Serving
    /\ sessions' = SessionLocal(sessions, Len(inflight) + 1)
    /\ inflight' = Append(inflight,
                          Request(op, id, u, fault, Len(sessions) + 1, pc, loaded, rs, clock))
    /\ UNCHANGED <<store, seq, clock, req, prev, ret, resp, deleted, boot>>

\* request r goes on to the state q; the table and the sequence become st, sq
Step(r, q, st, sq, del) ==
    /\ inflight' = [inflight EXCEPT ![r] = q]
    /\ store' = st
    /\ seq' = sq
    /\ clock' = clock + 1
    /\ deleted' = del
    /\ UNCHANGED <<sessions, req, prev, ret, resp, boot>>

\* except Exception: db.rollback(); raise HTTPException(500)
Failed(q, now) ==
    [q EXCEPT !.pc = "exit", !.tc = now, !.resp = Resp(500, Detail500(q.op), <<>>)]

\* create_product: db.add(db_product); db.commit()
CommitCreate(r) ==
    LET q == inflight[r]
        now == clock + 1
        id == NextId(seq)
        row == InsertRow(q.u, id, now)
    IN  IF q.fault = "commit" \/ ~NumericFits(row.price)
        THEN \E burn \in BOOLEAN :
                Step(r, Failed(q, now), store, IF burn THEN id ELSE seq, deleted)
        ELSE Step(r, [q EXCEPT !.pc = "committed", !.tc = now, !.loaded = <<row>>],
                  Put(store, row), id, deleted)

\* update_product: setattr loop; db.add(product); db.commit()
CommitUpdate(r) ==
    LET q == inflight[r]
        now == clock + 1
        cols == Changed(q.u, q.loaded[1])
        res == UpdateStatement(store, q.id, q.u, cols, q.loaded[1], now)
    IN  IF q.fault = "commit"
        THEN Step(r, Failed(q, now), store, seq, deleted)
        ELSE IF cols = {}
        THEN \* nothing to flush
             Step(r, [q EXCEPT !.pc = "committed", !.tc = now], store, seq, deleted)
        ELSE IF \/ res.rows = 0        \* StaleDataError
                \/ ~NotNullOk(q.u, cols)
                \/ ~NumericFits(res.st[q.id].price)
        THEN Step(r, Failed(q, now), store, seq, deleted)
        ELSE Step(r, [q EXCEPT !.pc = "committed", !.tc = now], res.st, seq, deleted)

\* delete_product: db.delete(product); db.commit(); return 204.  A DELETE
\* that matches no row is a warning, not an exception
CommitDelete(r) ==
    LET q == inflight[r]
        now == clock + 1
    IN  IF q.fault = "commit"
        THEN Step(r, Failed(q, now), store, seq, deleted)
        ELSE Step(r, [q EXCEPT !.pc = "exit", !.tc = now, !.resp = Resp(204, "", <<>>)],
                  Remove(store, q.id), seq, deleted \cup {q.id})

\* db.refresh(product); return product.  A row that is gone raises
\* InvalidRequestError, which the except clause turns into the 500
Refresh(r) ==
    LET q == inflight[r]
        id == q.loaded[1].product_id
    IN  /\ inflight' = [inflight EXCEPT ![r] =
                IF id \notin DOMAIN store
                THEN [q EXCEPT !.pc = "exit", !.resp = Resp(500, Detail500(q.op), <<>>)]
                ELSE [q EXCEPT !.pc = "exit", !.loaded = <<store[id]>>,
                               !.resp = Serialize(<<store[id]>>,
                                                  IF q.op = "create" THEN 201 ELSE 200)]]
        /\ UNCHANGED <<store, seq, clock, sessions, req, prev, ret, resp, deleted, boot>>

\* the response is made; get_db resumes after its yield
Close(r) ==
    LET q == inflight[r]
    IN  /\ sessions' = GetDbExit(sessions, q.db, q.resp)
        /\ inflight' = [inflight EXCEPT ![r].pc = "done"]
        /\ UNCHANGED <<store, seq, clock, req, prev, ret, resp, deleted, boot>>

-----------------------------------------------------------------------------
(* Concurrency specification: MaxReqs requests against a table that holds   *)
(* one product, the state after one create_product.                         *)

MaxReqs == 2

FirstPayload == Payload(Val(NameA), Absent(NoStr), Val(Float(15, 750)), Val(0))
FirstRow == InsertRow(FirstPayload, 1, 1)

InitC ==
    /\ store = Put(EmptyStore, FirstRow)
    /\ seq = 1
    /\ clock = 1
    /\ req = Req("create", 0, FirstPayload, DefaultSkip, DefaultLimit, Absent(NoStr), <<>>, "none")
    /\ prev = EmptyStore
    /\ ret = <<FirstRow>>
    /\ resp = Serialize(<<FirstRow>>, 201)
    /\ deleted = {}
    /\ boot = Ready
    /\ sessions = <<>>
    /\ inflight = <<>>

CIds == {1}

CCreatePayloads ==
    { Payload(Val(NameB), Absent(NoStr), Val(Float(15, 750)), Val(0)),
      Payload(Val(NameB), Absent(NoStr), Val(Float(0, 0)), Val(0)) }

CUpdatePayloads ==
    { Payload(Val(NameB), Absent(NoStr), Absent(NoFloat), Absent(NoInt)),
      NoPayload }

c_create_product ==
    /\ Len(inflight) < MaxReqs
    /\ \E p \in CCreatePayloads, fault \in {"none", "commit"} :
        IF ~ProductCreate(p)
        THEN fault = "none" /\ Arrive("create", 0, p, fault, "exit", <<>>, Unprocessable)
        ELSE Arrive("create", 0, p, fault, "handler", <<>>, NoResp)

c_list_products ==
    /\ Len(inflight) < MaxReqs
    /\ \E order \in Orders(DOMAIN store) :
        LET products == Page(Filtered(store, order, Absent(NoStr)), DefaultSkip, DefaultLimit)
        IN  Arrive("list", 0, NoPayload, "none", "exit", products, Serialize(products, 200))

c_get_product ==
    /\ Len(inflight) < MaxReqs
    /\ \E id \in CIds, fault \in {"none", "fetch"} :
        IF fault = "fetch"
        THEN Arrive("get", id, NoPayload, fault, "exit", <<>>, Unhandled)
        ELSE IF id \notin DOMAIN store
        THEN Arrive("get", id, NoPayload, fault, "exit", <<>>, NotFound)
        ELSE Arrive("get", id, NoPayload, fault, "exit", <<store[id]>>,
                    Serialize(<<store[id]>>, 200))

c_update_product ==
    /\ Len(inflight) < MaxReqs
    /\ \E id \in CIds, u \in CUpdatePayloads, fault \in {"none", "commit"} :
        IF id \notin DOMAIN store
        THEN fault = "none" /\ Arrive("update", id, u, fault, "exit", <<>>, NotFound)
        ELSE Arrive("update", id, u, fault, "handler", <<store[id]>>, NoResp)

c_delete_product ==
    /\ Len(inflight) < MaxReqs
    /\ \E id \in CIds, fault \in {"none", "commit"} :
        IF id \notin DOMAIN store
        THEN fault = "none" /\ Arrive("delete", id, NoPayload, fault, "exit", <<>>, NotFound)
        ELSE Arrive("delete", id, NoPayload, fault, "handler", <<store[id]>>, NoResp)

c_commit ==
    \E r \in DOMAIN inflight :
        /\ inflight[r].pc = "handler"
        /\ CASE inflight[r].op = "create" -> CommitCreate(r)
             [] inflight[r].op = "update" -> CommitUpdate(r)
             [] OTHER -> CommitDelete(r)

c_refresh == \E r \in DOMAIN inflight : inflight[r].pc = "committed" /\ Refresh(r)

c_close == \E r \in DOMAIN inflight : inflight[r].pc = "exit" /\ Close(r)

NextC ==
    \/ c_create_product \/ c_list_products \/ c_get_product
    \/ c_update_product \/ c_delete_product
    \/ c_commit \/ c_refresh \/ c_close

SpecC == InitC /\ [][NextC]_vars

\* request r has its response and get_db has run to its end
Done(r) == inflight[r].pc = "done"

\* the handler of request r has returned or raised
Answered(r) == inflight[r].pc \in {"exit", "done"}

\* C13: every request has a session of its own, made for it by get_db and
\* used by no other request; the session is not closed while the request is
\* being handled, and once the request is over, whatever its response, the
\* session has been closed exactly once.
C13_SessionPerRequest ==
    /\ Len(sessions) = Len(inflight)
    /\ \A r \in DOMAIN inflight :
        /\ inflight[r].db \in DOMAIN sessions
        /\ sessions[inflight[r].db].owner = r
        /\ \A r2 \in DOMAIN inflight : r2 # r => inflight[r2].db # inflight[r].db
        /\ sessions[inflight[r].db].closes = IF Done(r) THEN 1 ELSE 0

\* an update answered 500 after its rollback and its session was closed,
\* while the other request still holds its own open session
C13_Witness ==
    \E r, r2 \in DOMAIN inflight :
        /\ inflight[r].op = "update" /\ Done(r)
        /\ inflight[r].resp = Resp(500, "Could not update product.", <<>>)
        /\ sessions[inflight[r].db].closes = 1
        /\ inflight[r2].pc = "handler"
        /\ sessions[inflight[r2].db].closes = 0

\* every id in the table or deleted has been handed out by the sequence,
\* and a row carries the id it is stored under
IdsIssued ==
    /\ DOMAIN store \cup deleted \subseteq 1..seq
    /\ \A id \in DOMAIN store : store[id].product_id = id

\* a step creates rows only under ids the sequence has not handed out
\* before, and leaves product_id and created_at of every row it keeps
IdsKept ==
    /\ seq' >= seq
    /\ \A id \in DOMAIN store' \ DOMAIN store : id > seq /\ id \notin deleted
    /\ \A id \in DOMAIN store' \cap DOMAIN store :
        /\ store'[id].product_id = store[id].product_id
        /\ store'[id].created_at = store[id].created_at

\* C14: over every interleaving of create, update and delete requests, a new
\* record gets an id that no record had before, deleted or not, and no step
\* changes the product_id or the created_at of a record.
C14_IdPermanent == []IdsIssued /\ [][IdsKept]_vars

\* record 1 was deleted and a create that committed after it got id 2
C14_Witness ==
    /\ 1 \in deleted
    /\ 2 \in DOMAIN store
    /\ \E r, d \in DOMAIN inflight :
        /\ inflight[d].op = "delete" /\ inflight[d].resp.status = 204
        /\ inflight[r].op = "create" /\ inflight[r].resp.status = 201
        /\ inflight[r].tc > inflight[d].tc

\* request r read the table before request d committed
FetchedBefore(r, d) == inflight[d].tc > inflight[r].tf

\* C16 as stated: of two delete requests for the same id that both fetched
\* the record before either committed, one is answered 204 and the other
\* 404 'Product not found'.
C16_OneDeleteWins ==
    \A r, d \in DOMAIN inflight :
        ( /\ r # d
          /\ inflight[r].op = "delete" /\ inflight[d].op = "delete"
          /\ inflight[r].id = inflight[d].id
          /\ inflight[r].fault = "none" /\ inflight[d].fault = "none"
          /\ inflight[r].loaded # <<>> /\ inflight[d].loaded # <<>>
          /\ Answered(r) /\ Answered(d)
          /\ FetchedBefore(r, d) /\ FetchedBefore(d, r) )
        => \/ inflight[r].resp.status = 204 /\ inflight[d].resp = NotFound
           \/ inflight[d].resp.status = 204 /\ inflight[r].resp = NotFound

\* delete request d committed after update request r fetched the record and
\* before r committed
DeletedUnder(r, d) ==
    /\ inflight[r].op = "update" /\ inflight[d].op = "delete"
    /\ inflight[r].id = inflight[d].id
    /\ inflight[r].loaded # <<>>
    /\ inflight[d].resp.status = 204
    /\ inflight[d].tc > inflight[r].tf
    /\ inflight[r].tc > inflight[d].tc

\* C17: when a delete of the id commits between the fetch and the commit of
\* an update, the update is not answered 200 and the id has no row, in that
\* state and in every later one.
C17_UpdateLosesToDelete ==
    \A r, d \in DOMAIN inflight :
        DeletedUnder(r, d) =>
            /\ inflight[r].id \notin DOMAIN store
            /\ Answered(r) => inflight[r].resp = Resp(500, "Could not update product.", <<>>)

\* an update that changes the name was answered after a delete had
\* committed under it
C17_Witness ==
    \E r, d \in DOMAIN inflight :
        /\ DeletedUnder(r, d)
        /\ inflight[r].u.name.st = "val"
        /\ inflight[r].fault = "none"
        /\ Done(r) /\ Done(d)

=============================================================================
